---- MODULE Spec2Model ----
(***************************************************************************)
(* Model of meshpy/stp_file.py: the StablePoseFile reader and writer of    *)
(* .stp files.                                                             *)
(*                                                                         *)
(* Text is modelled character by character: a string is a sequence of      *)
(* one-character strings, a file is the sequence of its lines (each line   *)
(* without its terminating newline, as "for line in f" yields them).       *)
(* A floating-point number is an integer count of 10^-7 units, one decimal *)
(* digit finer than the six digits "%f" prints, so that formatting rounds. *)
(***************************************************************************)
EXTENDS Integers, Sequences, FiniteSets, TLC

VARIABLES
    filepath_,   \* self.filepath_ : the path stored by __init__
    argPath,     \* the path the caller gives to __init__
    disk,        \* the file system: a function from existing paths to files
    handle,      \* the file object f opened by the last call: none/open/closed
    call,        \* the last operation: init, write, read, edit
    outcome,     \* "ok", or the exception the last call raised
    result,      \* the list returned by the last read
    argPoses,    \* the stable_poses the caller gives to write
    argMinProb,  \* the min_prob the caller gives to write
    pristine     \* the file on disk is exactly what the last write produced

vars == <<filepath_, argPath, disk, handle, call, outcome, result,
          argPoses, argMinProb, pristine>>

----------------------------------------------------------------------------
(* Bounds of the model *)

\* longest list of poses drawn from the pool of records
MaxLen == 2

\* length of the one long list (a pose count of more than one digit)
WideLen == 10

\* longest path stem put in front of each suffix
MaxStem == 2

(* Constants of the program *)

\* "%f" prints six digits after the decimal point
FracDigits == 6

\* range(46 - len(str(len(R_list))))
NumPosesPad == 46

\* range(40 - len(str(min_prob)))
MinProbPad == 40

\* self.filepath_[:-4]
ExtStrip == 4

----------------------------------------------------------------------------
(* Characters and strings *)

Digits == <<"0", "1", "2", "3", "4", "5", "6", "7", "8", "9">>

DigitSet == {Digits[k] : k \in 1..10}

IsDigit(c) == c \in DigitSet

DigitVal(c) == (CHOOSE k \in 1..10 : Digits[k] = c) - 1

\* the characters str.split() treats as separators
IsSpace(c) == c = " " \/ c = "\t" \/ c = "\n"

RECURSIVE Pow10(_)
Pow10(n) == IF n = 0 THEN 1 ELSE 10 * Pow10(n - 1)

\* one unit of the number representation is 10^-(FracDigits+1)
Unit == Pow10(FracDigits + 1)

Abs(v) == IF v < 0 THEN -v ELSE v

RECURSIVE DecStr(_)
\* "%d" % n, for n >= 0
DecStr(n) == IF n < 10 THEN <<Digits[n + 1]>>
             ELSE DecStr(n \div 10) \o <<Digits[(n % 10) + 1]>>

RECURSIVE ZeroPad(_, _)
\* the digits of n, zero-padded on the left to the given width
ZeroPad(n, width) == IF width = 0 THEN <<>>
                     ELSE ZeroPad(n \div 10, width - 1) \o <<Digits[(n % 10) + 1]>>

Repeat(c, n) == [k \in 1..n |-> c]

RECURSIVE StripZeros(_)
\* a digit string without its trailing zeros, but never empty
StripZeros(s) == IF Len(s) > 1 /\ s[Len(s)] = "0"
                 THEN StripZeros(SubSeq(s, 1, Len(s) - 1)) ELSE s

\* "%f" % v : fixed point, six digits, rounded to nearest
FormatF(v) ==
    LET mag == (Abs(v) + (Pow10(1) \div 2)) \div Pow10(1)
        whole == mag \div Pow10(FracDigits)
        frac == mag % Pow10(FracDigits)
    IN  (IF v < 0 THEN <<"-">> ELSE <<>>)
            \o DecStr(whole) \o <<".">> \o ZeroPad(frac, FracDigits)

\* str(x) of a number: an int prints its digits, a float its shortest
\* decimal form (integer part, point, fraction without trailing zeros)
PyStr(x) ==
    IF x.isInt
    THEN (IF x.v < 0 THEN <<"-">> ELSE <<>>) \o DecStr(Abs(x.v) \div Unit)
    ELSE (IF x.v < 0 THEN <<"-">> ELSE <<>>)
            \o DecStr(Abs(x.v) \div Unit) \o <<".">>
            \o StripZeros(ZeroPad(Abs(x.v) % Unit, FracDigits + 1))

RECURSIVE AllDigits(_, _, _)
AllDigits(s, lo, hi) == lo > hi \/ (IsDigit(s[lo]) /\ AllDigits(s, lo + 1, hi))

RECURSIVE DigitsVal(_, _, _, _)
DigitsVal(s, lo, hi, acc) ==
    IF lo > hi THEN acc
    ELSE DigitsVal(s, lo + 1, hi, 10 * acc + DigitVal(s[lo]))

\* positions of the decimal point in s[lo..hi]
Points(s, lo, hi) == {k \in lo..hi : s[k] = "."}

\* whether float(token) succeeds: [sign] digits [. digits], with a digit on
\* at least one side of the point and at most FracDigits+1 fraction digits
IsFloat(s) ==
    LET lo == IF Len(s) > 0 /\ s[1] \in {"-", "+"} THEN 2 ELSE 1
        hi == Len(s)
        pts == Points(s, lo, hi)
    IN  /\ lo <= hi
        /\ Cardinality(pts) <= 1
        /\ IF pts = {}
           THEN AllDigits(s, lo, hi)
           ELSE LET d == CHOOSE k \in pts : TRUE
                IN  /\ AllDigits(s, lo, d - 1)
                    /\ AllDigits(s, d + 1, hi)
                    /\ hi - lo >= 1
                    /\ hi - d <= FracDigits + 1

\* float(token), for a token with IsFloat
ParseFloat(s) ==
    LET lo == IF s[1] \in {"-", "+"} THEN 2 ELSE 1
        hi == Len(s)
        pts == Points(s, lo, hi)
        d == IF pts = {} THEN hi + 1 ELSE CHOOSE k \in pts : TRUE
        whole == DigitsVal(s, lo, d - 1, 0)
        nfrac == IF d > hi THEN 0 ELSE hi - d
        frac == DigitsVal(s, d + 1, hi, 0) * Pow10(FracDigits + 1 - nfrac)
        mag == whole * Unit + frac
    IN  IF s[1] = "-" THEN -mag ELSE mag

\* the positions of the non-space characters of s
NonSpace(s) == {k \in 1..Len(s) : ~IsSpace(s[k])}

\* the k-th smallest element of a set of numbers
Nth(S, k) == CHOOSE x \in S : Cardinality({y \in S : y <= x}) = k

\* line.split(): the maximal runs of non-space characters, in order; a run
\* starts where no non-space character precedes, and ends where none follows
Split(s) ==
    LET chars == NonSpace(s)
        starts == {k \in chars : (k - 1) \notin chars}
        ends == {k \in chars : (k + 1) \notin chars}
    IN  <<>> \o [k \in 1..Cardinality(starts) |->
                    SubSeq(s, Nth(starts, k), Nth(ends, k))]

----------------------------------------------------------------------------
(* Paths *)

StpExt == <<".", "s", "t", "p">>

RECURSIVE RFind(_, _, _)
\* p.rfind(c): the last position of c among the first k characters, 0 if none
RFind(p, c, k) == IF k = 0 THEN 0
                  ELSE IF p[k] = c THEN k ELSE RFind(p, c, k - 1)

\* splitext that takes a leading dot of the last component for an extension
SplitExtAnyDot(p) ==
    LET sepIndex == RFind(p, "/", Len(p))
        dotIndex == RFind(p, ".", Len(p))
    IN  IF dotIndex > sepIndex
        THEN <<SubSeq(p, 1, dotIndex - 1), SubSeq(p, dotIndex, Len(p))>>
        ELSE <<p, <<>>>>

\* os.path.splitext(p): the extension starts at the last dot of the last
\* path component, unless only dots precede it in that component
SplitExt(p) ==
    LET sepIndex == RFind(p, "/", Len(p))
        dotIndex == RFind(p, ".", Len(p))
    IN  IF /\ dotIndex > sepIndex
           /\ \E k \in (sepIndex + 1)..(dotIndex - 1) : p[k] # "."
        THEN <<SubSeq(p, 1, dotIndex - 1), SubSeq(p, dotIndex, Len(p))>>
        ELSE <<p, <<>>>>

\* one character too few is stripped
WritePathShort(p) == SubSeq(p, 1, Len(p) - (ExtStrip - 1)) \o StpExt

\* self.filepath_[:-4] + ".stp"
WritePath(p) == SubSeq(p, 1, Len(p) - ExtStrip) \o StpExt

\* the suffixes the paths given to __init__ end in
Suffixes ==
    { StpExt,
      <<".", "S", "T", "P">>,
      <<".", "s", "t", "p", "x">>,
      <<".", "s", "t", "p", "/">>,
      <<".", "s", "t", "p", ".", "b">>,
      <<"s", "t", "p">>,
      <<".", "s", "t">>,
      <<>> }

RECURSIVE Stems(_)
\* the stems of at most n characters
Stems(n) ==
    IF n = 0 THEN {<<>>}
    ELSE Stems(n - 1) \cup {Append(q, c) : q \in Stems(n - 1), c \in {"a", ".", "/"}}

Paths == {stem \o suffix : stem \in Stems(MaxStem), suffix \in Suffixes}

----------------------------------------------------------------------------
(* Stable poses: p, the rows of r, x0 and the text of the identifier *)

Pose(p, r, x0, id) == [p |-> p, r |-> r, x0 |-> x0, id |-> id]

Eye == <<<<10000000, 0, 0>>, <<0, 10000000, 0>>, <<0, 0, 10000000>>>>

QuarterTurn == <<<<0, -10000000, 0>>, <<10000000, 0, 0>>, <<0, 0, 10000000>>>>

EighthTurn == <<<<7071068, -7071068, 0>>, <<7071068, 7071068, 0>>,
                <<0, 0, 10000000>>>>

\* the poses written to the files that are then changed on disk
FilePool ==
    { Pose(5000000, Eye, <<0, 0, 0>>, <<"a">>),
      Pose(2500000, QuarterTurn, <<1234564, -25000000, 100000000>>, <<"7">>) }

\* the poses the callers of write are drawn from: those, one whose numbers
\* round up when printed, one with an empty identifier and one with an
\* identifier of two words
PosePool ==
    FilePool \cup
    { Pose(9999996, EighthTurn, <<4, 125000000, -16>>, <<"b", "1">>),
      Pose(1234564, Eye, <<0, 0, 0>>, <<>>),
      Pose(7500000, QuarterTurn, <<0, 0, 0>>, <<"a", " ", "b">>) }

RECURSIVE SeqsUpTo(_, _)
\* the sequences over S of length at most n
SeqsUpTo(S, n) ==
    IF n = 0 THEN {<<>>}
    ELSE LET shorter == SeqsUpTo(S, n - 1)
         IN  shorter \cup {Append(q, x) : q \in shorter, x \in S}

\* one long list, for a pose count of more than one digit
WideList == [k \in 1..WideLen |-> Pose(5000000, Eye, <<0, 0, 0>>, DecStr(k))]

PoseLists == SeqsUpTo(PosePool, MaxLen) \cup {WideList}

\* min_prob values: the default int 0, and floats
MinProbs == { [isInt |-> TRUE, v |-> 0],
              [isInt |-> FALSE, v |-> 2500000],
              [isInt |-> FALSE, v |-> 5000000],
              [isInt |-> FALSE, v |-> 1234564] }

----------------------------------------------------------------------------
(* write *)

Border == Repeat("#", 61)

Attribution ==
    <<"#", " ", "S", "T", "P", " ", "f", "i", "l", "e", " ", "g", "e", "n",
      "e", "r", "a", "t", "e", "d", " ", "b", "y", " ", "U", "C", " ", "B",
      "e", "r", "k", "e", "l", "e", "y", " ", "A", "u", "t", "o", "m", "a",
      "t", "i", "o", "n", " ", "S", "c", "i", "e", "n", "c", "e", "s", " ",
      "L", "a", "b", " ", "#">>

BlankComment == <<"#">> \o Repeat(" ", 59) \o <<"#">>

NumPosesLabel ==
    <<"#", " ", "N", "u", "m", " ", "P", "o", "s", "e", "s", ":", " ">>

MinProbLabel ==
    <<"#", " ", "M", "i", "n", " ", "P", "r", "o", "b", "a", "b", "i", "l",
      "i", "t", "y", ":", " ">>

\* range(n) of a negative n is empty
Pad(n) == Repeat(" ", IF n < 0 THEN 0 ELSE n)

\* pads by the count instead of by its number of digits
NumPosesLineByCount(n) ==
    NumPosesLabel \o DecStr(n) \o Pad(NumPosesPad - n) \o <<" ", "#">>

NumPosesLine(n) ==
    NumPosesLabel \o DecStr(n) \o Pad(NumPosesPad - Len(DecStr(n))) \o <<" ", "#">>

MinProbLine(min_prob) ==
    MinProbLabel \o PyStr(min_prob)
        \o Pad(MinProbPad - Len(PyStr(min_prob))) \o <<" ", "#">>

Banner(n, min_prob) ==
    << Border, Attribution, BlankComment, NumPosesLine(n),
       MinProbLine(min_prob), BlankComment, Border, <<>> >>

\* "%f %f %f" % (a, b, c)
Triple(t) == FormatF(t[1]) \o <<" ">> \o FormatF(t[2]) \o <<" ">> \o FormatF(t[3])

\* the six lines written for one retained pose
PoseLines(pose) ==
    << <<"p", " ">> \o FormatF(pose.p),
       <<"r", " ">> \o Triple(pose.r[1]),
       <<" ", " ">> \o Triple(pose.r[2]),
       <<" ", " ">> \o Triple(pose.r[3]),
       <<"x", "0", " ">> \o Triple(pose.x0),
       <<"i", "d", " ">> \o pose.id >>

RECURSIVE RetainedStrict(_, _)
\* keeps only the poses strictly above the threshold
RetainedStrict(stable_poses, min_prob) ==
    IF stable_poses = <<>> THEN <<>>
    ELSE LET pose == Head(stable_poses)
             rest == RetainedStrict(Tail(stable_poses), min_prob)
         IN  IF pose.p > min_prob.v THEN <<pose>> \o rest ELSE rest

RECURSIVE Retained(_, _)
\* R_list: the poses with pose.p >= min_prob, in the order given
Retained(stable_poses, min_prob) ==
    IF stable_poses = <<>> THEN <<>>
    ELSE LET pose == Head(stable_poses)
             rest == Retained(Tail(stable_poses), min_prob)
         IN  IF pose.p >= min_prob.v THEN <<pose>> \o rest ELSE rest

RECURSIVE AllPoseLines(_)
AllPoseLines(R_list) ==
    IF R_list = <<>> THEN <<>>
    ELSE PoseLines(Head(R_list)) \o AllPoseLines(Tail(R_list))

\* the lines of the file write produces
FileText(stable_poses, min_prob) ==
    LET R_list == Retained(stable_poses, min_prob)
    IN  Banner(Len(R_list), min_prob) \o AllPoseLines(R_list) \o << <<>>, <<>> >>

----------------------------------------------------------------------------
(* read *)

\* data = [line.split() for line in f]
Tokenize(lines) == <<>> \o [k \in 1..Len(lines) |-> Split(lines[k])]

\* whether data[line][k] exists, for the 0-based line and k of the source
\* shifted to 1-based positions
HasTok(data, line, k) == line <= Len(data) /\ k <= Len(data[line])

\* whether line i of data starts a record
IsPLine(data, i) == Len(data[i]) > 0 /\ data[i][1] = <<"p">>

\* the tokens read for r: row 0 after its tag, rows 1 and 2 from the start
RTokens(data, i) ==
    << <<data[i+1][2], data[i+1][3], data[i+1][4]>>,
       <<data[i+2][1], data[i+2][2], data[i+2][3]>>,
       <<data[i+3][1], data[i+3][2], data[i+3][3]>> >>

\* takes the tag of the x0 line for its first number
X0TokensUntagged(data, i) == <<data[i+4][1], data[i+4][2], data[i+4][3]>>

X0Tokens(data, i) == <<data[i+4][2], data[i+4][3], data[i+4][4]>>

AllFloat(toks) == \A k \in 1..Len(toks) : IsFloat(toks[k])

ParseAll(toks) == [k \in 1..Len(toks) |-> ParseFloat(toks[k])]

\* the exception raised while p, r and x0 of the record at line i are read,
\* in the order the statements run, or "ok"
BlockError(data, i) ==
    IF ~HasTok(data, i, 2) THEN "IndexError"
    ELSE IF ~IsFloat(data[i][2]) THEN "ValueError"
    ELSE IF ~(HasTok(data, i+1, 4) /\ HasTok(data, i+2, 3) /\ HasTok(data, i+3, 3))
         THEN "IndexError"
    ELSE IF ~(\A k \in 1..3 : AllFloat(RTokens(data, i)[k])) THEN "ValueError"
    ELSE IF ~HasTok(data, i+4, 4) THEN "IndexError"
    ELSE IF ~AllFloat(X0Tokens(data, i)) THEN "ValueError"
    ELSE "ok"

\* try: identifier = data[i+5][1]; except: stp_id = 0
\* identifier is <<>> while the name is unbound, <<token>> once assigned;
\* the except branch assigns another name and leaves identifier as it was
IdentifierAfter(data, i, identifier) ==
    IF HasTok(data, i+5, 2) THEN <<data[i+5][2]>> ELSE identifier

\* the records read before the exception are handed back
AbortPartial(exception, stable_poses) ==
    [outcome |-> exception, poses |-> stable_poses]

\* an exception leaves read: the list built so far is not returned
Abort(exception, stable_poses) == [outcome |-> exception, poses |-> <<>>]

\* inserts at the front
PrependPose(stable_poses, pose) == <<pose>> \o stable_poses

\* stable_poses.append(sp.StablePose(p, r, x0, stp_id=identifier))
AppendPose(stable_poses, pose) == Append(stable_poses, pose)

\* the pose built from the record at line i
PoseAt(data, i, identifier) ==
    Pose(ParseFloat(data[i][2]),
         [k \in 1..3 |-> ParseAll(RTokens(data, i)[k])],
         ParseAll(X0Tokens(data, i)),
         identifier)

RECURSIVE ReadLoop(_, _, _, _)
\* for i in range(len(data)), from line i on
ReadLoop(data, i, stable_poses, identifier) ==
    IF i > Len(data) THEN [outcome |-> "ok", poses |-> stable_poses]
    ELSE IF ~IsPLine(data, i) THEN ReadLoop(data, i + 1, stable_poses, identifier)
    ELSE IF BlockError(data, i) # "ok"
         THEN Abort(BlockError(data, i), stable_poses)
    ELSE LET id == IdentifierAfter(data, i, identifier)
         IN  IF id = <<>>
             THEN Abort("NameError", stable_poses)
             ELSE ReadLoop(data, i + 1,
                           AppendPose(stable_poses, PoseAt(data, i, id[1])), id)

\* stable_poses = [], identifier unbound, then the loop over the lines
ReadFile(lines) ==
    CHOOSE r \in {ReadLoop(data, 1, <<>>, <<>>) : data \in {Tokenize(lines)}} : TRUE

----------------------------------------------------------------------------
(* The object, the file system and the calls *)

NoFiles == [q \in {} |-> <<>>]

DefaultMinProb == [isInt |-> TRUE, v |-> 0]

HomePath == <<"a">> \o StpExt

\* the constructor returned an object
Constructed == call # "none" /\ ~(call = "init" /\ outcome # "ok")

\* __init__(filepath)
Construct(filepath) ==
    /\ call = "none"
    /\ filepath_' = filepath
    /\ outcome' = IF SplitExt(filepath)[2] # StpExt THEN "ValueError" ELSE "ok"
    /\ call' = "init"
    /\ UNCHANGED <<argPath, disk, handle, result, argPoses, argMinProb, pristine>>

\* write(stable_poses, min_prob)
Write(stable_poses, min_prob) ==
    /\ Constructed
    /\ LET target == WritePath(filepath_)
           text == FileText(stable_poses, min_prob)
       IN  disk' = [q \in DOMAIN disk \cup {target} |->
                        IF q = target THEN text ELSE disk[q]]
    /\ handle' = "closed"
    /\ call' = "write"
    /\ outcome' = "ok"
    /\ result' = <<>>
    /\ pristine' = TRUE
    /\ UNCHANGED <<filepath_, argPath, argPoses, argMinProb>>

\* read(): f is opened and never closed by the call
Read ==
    /\ Constructed
    /\ IF filepath_ \in DOMAIN disk
       THEN LET r == ReadFile(disk[filepath_])
            IN  /\ outcome' = r.outcome
                /\ result' = r.poses
                /\ handle' = "open"
       ELSE /\ outcome' = "IOError"
            /\ result' = <<>>
            /\ handle' = "none"
    /\ call' = "read"
    /\ UNCHANGED <<filepath_, argPath, disk, argPoses, argMinProb, pristine>>

\* the runtime reclaims the file object that read left open
Finalize ==
    /\ handle = "open"
    /\ handle' = "closed"
    /\ UNCHANGED <<filepath_, argPath, disk, call, outcome, result,
                   argPoses, argMinProb, pristine>>

(* The file read is whatever is on disk: another program may have changed
   the file since it was written. *)

DropLine(lines, k) == SubSeq(lines, 1, k - 1) \o SubSeq(lines, k + 1, Len(lines))

TruncateAt(lines, k) == SubSeq(lines, 1, k - 1)

BlankLine(lines, k) == [lines EXCEPT ![k] = <<>>]

\* only the first token of the line is left
TagOnly(lines, k) ==
    [lines EXCEPT ![k] = IF Split(@) = <<>> THEN <<>> ELSE Split(@)[1]]

\* the file as last written is still on disk
CanEdit == call = "write" /\ pristine /\ filepath_ \in DOMAIN disk

Edited(lines) ==
    /\ disk' = [disk EXCEPT ![filepath_] = lines]
    /\ call' = "edit"
    /\ pristine' = FALSE
    /\ UNCHANGED <<filepath_, argPath, handle, outcome, result, argPoses, argMinProb>>

EditDrop ==
    /\ CanEdit
    /\ \E k \in 1..Len(disk[filepath_]) : Edited(DropLine(disk[filepath_], k))

EditTruncate ==
    /\ CanEdit
    /\ \E k \in 1..Len(disk[filepath_]) : Edited(TruncateAt(disk[filepath_], k))

EditBlank ==
    /\ CanEdit
    /\ \E k \in 1..Len(disk[filepath_]) : Edited(BlankLine(disk[filepath_], k))

EditTagOnly ==
    /\ CanEdit
    /\ \E k \in 1..Len(disk[filepath_]) : Edited(TagOnly(disk[filepath_], k))

----------------------------------------------------------------------------
(* Specifications *)

\* a caller holding a list of poses and a threshold, and one StablePoseFile
\* constructed on HomePath; no file exists yet
InitWith(lists, min_probs) ==
    /\ filepath_ = HomePath
    /\ argPath = HomePath
    /\ disk = NoFiles
    /\ handle = "none"
    /\ call = "init"
    /\ outcome = "ok"
    /\ result = <<>>
    /\ argPoses \in lists
    /\ argMinProb \in min_probs
    /\ pristine = FALSE

WriteCall == Write(argPoses, argMinProb)

(* Spec: files are only ever written by write *)

Init == InitWith(PoseLists, MinProbs)

Next ==
    \/ WriteCall
    \/ Read
    \/ Finalize

Spec == Init /\ [][Next]_vars

(* SpecFiles: the file may be changed on disk between write and read *)

InitFiles == InitWith(SeqsUpTo(FilePool, MaxLen), {DefaultMinProb})

NextFiles ==
    \/ WriteCall
    \/ Read
    \/ Finalize
    \/ EditDrop
    \/ EditTruncate
    \/ EditBlank
    \/ EditTagOnly

SpecFiles == InitFiles /\ [][NextFiles]_vars

(* SpecCtor: the caller constructs the StablePoseFile on any path *)

InitCtor ==
    /\ filepath_ = <<>>
    /\ argPath \in Paths
    /\ disk = NoFiles
    /\ handle = "none"
    /\ call = "none"
    /\ outcome = "ok"
    /\ result = <<>>
    /\ argPoses \in SeqsUpTo(FilePool, 1)
    /\ argMinProb = DefaultMinProb
    /\ pristine = FALSE

ConstructCall == Construct(argPath)

NextCtor ==
    \/ ConstructCall
    \/ WriteCall
    \/ Read
    \/ Finalize

SpecCtor == InitCtor /\ [][NextCtor]_vars

----------------------------------------------------------------------------
(* Notions the properties are stated with *)

\* the last call was a read of the file exactly as the last write left it
ReadAfterWrite == call = "read" /\ pristine

\* an identifier that is one whitespace-free token
TokenId(id) == Len(id) > 0 /\ \A k \in 1..Len(id) : ~IsSpace(id[k])

\* a record the format can carry: a probability in [0, 1] and a token identifier
ValidPose(pose) == pose.p >= 0 /\ pose.p <= Unit /\ TokenId(pose.id)

\* equal at the precision of the six printed digits
SameNumbers(u, v) ==
    Len(u) = Len(v) /\ \A k \in 1..Len(u) : FormatF(u[k]) = FormatF(v[k])

SamePose(a, b) ==
    /\ FormatF(a.p) = FormatF(b.p)
    /\ \A k \in 1..3 : SameNumbers(a.r[k], b.r[k])
    /\ SameNumbers(a.x0, b.x0)
    /\ a.id = b.id

\* the positions in the caller's list of the poses with p >= min_prob
KeptIdx == {k \in 1..Len(argPoses) : argPoses[k].p >= argMinProb.v}

\* the lines of data whose first token is p
PLines(data) == {i \in 1..Len(data) : IsPLine(data, i)}

\* data[line][k] exists and is a number
NumAt(data, line, k) == HasTok(data, line, k) /\ IsFloat(data[line][k])

\* the p line i is followed by the lines of r and x0, with the numbers read
\* from them
Followed4(data, i) ==
    /\ \A k \in 2..4 : NumAt(data, i + 1, k)
    /\ \A k \in 1..3 : NumAt(data, i + 2, k) /\ NumAt(data, i + 3, k)
    /\ \A k \in 2..4 : NumAt(data, i + 4, k)

\* line i+5 is an "id <identifier>" line
HasIdLine(data, i) == HasTok(data, i + 5, 2) /\ data[i + 5][1] = <<"i", "d">>

\* p, r and x0 of every record of the file parse
BlocksParse(data) ==
    \A i \in PLines(data) : NumAt(data, i, 2) /\ Followed4(data, i)

\* the pose holds the numbers of the record at line i
BuiltFrom(pose, data, i) ==
    /\ pose.p = ParseFloat(data[i][2])
    /\ \A k \in 1..3 : pose.r[1][k] = ParseFloat(data[i + 1][k + 1])
    /\ \A k \in 1..3 : pose.r[2][k] = ParseFloat(data[i + 2][k])
    /\ \A k \in 1..3 : pose.r[3][k] = ParseFloat(data[i + 3][k])
    /\ \A k \in 1..3 : pose.x0[k] = ParseFloat(data[i + 4][k + 1])

FileExists == filepath_ \in DOMAIN disk

----------------------------------------------------------------------------
(* Properties *)

EndsWithStp(path) ==
    Len(path) >= 4 /\ SubSeq(path, Len(path) - 3, Len(path)) = StpExt

\* in a path ending in ".stp", only dots (or nothing) stand between the last
\* separator and that suffix
OnlyDotsBefore(path) ==
    LET seps == {k \in 1..Len(path) : path[k] = "/"}
        sep == IF seps = {} THEN 0 ELSE CHOOSE k \in seps : \A j \in seps : j <= k
    IN  \A k \in (sep + 1)..(Len(path) - 4) : path[k] = "."

\* C3 as stated: the constructor raises ValueError for every path that does
\* not end in ".stp" and succeeds for every path that does, storing the path
\* and touching no file.
C3_Original ==
    call = "init"
    => /\ (outcome = "ok") = EndsWithStp(argPath)
       /\ (outcome = "ValueError") = ~EndsWithStp(argPath)
       /\ outcome = "ok" => filepath_ = argPath
       /\ disk = NoFiles /\ handle = "none"

\* C3, amended: the constructor raises ValueError for every path that does
\* not end in ".stp", and also for a path whose last component is ".stp"
\* preceded by nothing but dots; it succeeds for every other path ending in
\* ".stp", storing the path and touching no file.
C3_Extension ==
    call = "init"
    => /\ outcome \in {"ok", "ValueError"}
       /\ (outcome = "ok") = (EndsWithStp(argPath) /\ ~OnlyDotsBefore(argPath))
       /\ outcome = "ok" => filepath_ = argPath
       /\ disk = NoFiles /\ handle = "none"

\* the constructor was given a path ending in ".stp" and raised ValueError
C3_Witness ==
    /\ call = "init"
    /\ outcome = "ValueError"
    /\ EndsWithStp(argPath)
    /\ \E k \in 1..Len(argPath) : argPath[k] = "/"

\* C4: a record block without an "id <identifier>" line at offset +5 is
\* returned with the identifier "0", never with the identifier of an earlier
\* record or a token of a following one.
C4_MissingIdFallback ==
    (call = "read" /\ outcome = "ok")
    => \A data \in {Tokenize(disk[filepath_])} :
          \A k \in 1..Len(result) :
              ~HasIdLine(data, Nth(PLines(data), k)) => result[k].id = <<"0">>

\* C5: when p, r and x0 of every record parse, read raises nothing, whether
\* or not an identifier can be taken at offset +5, and returns every record;
\* also when the record without identifier is the first of the file.
C5_IdErrorNonFatal ==
    (call = "read" /\ FileExists)
    => \A data \in {Tokenize(disk[filepath_])} :
          BlocksParse(data)
          => outcome = "ok" /\ Len(result) = Cardinality(PLines(data))

\* C6 as stated: a file with a p line not followed by the lines of r, of x0
\* and of the identifier makes read raise, and no record is returned.
C6_Original ==
    (call = "read" /\ FileExists)
    => \A data \in {Tokenize(disk[filepath_])} :
          (\E i \in PLines(data) : ~(Followed4(data, i) /\ HasIdLine(data, i)))
          => outcome # "ok" /\ result = <<>>

\* C6, amended: a file with a p line not followed by the lines of r and of
\* x0, with the numbers read from them, makes read raise, and no record is
\* returned, however many records were well-formed before it.
C6_Malformed ==
    (call = "read" /\ FileExists)
    => \A data \in {Tokenize(disk[filepath_])} :
          (\E i \in PLines(data) : ~Followed4(data, i))
          => outcome \in {"IndexError", "ValueError", "NameError"} /\ result = <<>>

\* read raised on the second record of a file whose first record is whole
C6_Witness ==
    /\ call = "read"
    /\ FileExists
    /\ outcome = "IndexError"
    /\ result = <<>>
    /\ \E data \in {Tokenize(disk[filepath_])} :
          /\ Cardinality(PLines(data)) = 2
          /\ Followed4(data, Nth(PLines(data), 1))
          /\ HasIdLine(data, Nth(PLines(data), 1))
          /\ ~Followed4(data, Nth(PLines(data), 2))

\* C7: when read returns, the list has as many records as the file has lines
\* whose first token is p, the k-th built from the k-th such line; a file
\* without such a line gives the empty list, as does the file of write([], 0),
\* which holds the whole banner.
C7_CountAndOrder ==
    /\ (call = "read" /\ outcome = "ok")
       => \A data \in {Tokenize(disk[filepath_])} :
             /\ Len(result) = Cardinality(PLines(data))
             /\ \A k \in 1..Len(result) :
                   BuiltFrom(result[k], data, Nth(PLines(data), k))
    /\ (call = "read" /\ FileExists)
       => \A data \in {Tokenize(disk[filepath_])} :
             PLines(data) = {} => outcome = "ok" /\ result = <<>>
    /\ (ReadAfterWrite /\ argPoses = <<>>)
       => /\ outcome = "ok" /\ result = <<>>
          /\ Len(disk[filepath_]) = 10
          /\ SubSeq(disk[filepath_], 1, 8) = Banner(0, argMinProb)

\* read returned two different records from a file changed on disk
C7_Witness ==
    /\ call = "read"
    /\ outcome = "ok"
    /\ ~pristine
    /\ Len(result) = 2
    /\ result[1] # result[2]

\* C8: the handle opened by read or write is closed when the call returns,
\* on every path.
C8_HandleClosed == call \in {"read", "write"} => handle # "open"

\* the number of decimal digits of a count below 1000
DigitLen(n) == IF n < 10 THEN 1 ELSE IF n < 100 THEN 2 ELSE 3

\* C9: the "Num Poses" line carries 46 - digits(N) spaces after the count and
\* the "Min Probability" line 40 - len(str(min_prob)) after the value, each
\* then " #", and every line of the banner has the same width.
C9_BannerAligned ==
    call = "write"
    => LET file == disk[filepath_]
           n == Cardinality(KeptIdx)
           value == PyStr(argMinProb)
       IN  /\ file[4] = NumPosesLabel \o DecStr(n)
                           \o Repeat(" ", 46 - DigitLen(n)) \o <<" ", "#">>
           /\ file[5] = MinProbLabel \o value
                           \o Repeat(" ", 40 - Len(value)) \o <<" ", "#">>
           /\ \A k \in 1..7 : Len(file[k]) = Len(file[1])
           /\ file[1] = Border /\ file[7] = Border /\ file[3] = BlankComment

\* a file of ten or more poses was written with a threshold of several
\* characters
C9_Witness ==
    /\ call = "write"
    /\ Cardinality(KeptIdx) >= 10
    /\ Len(PyStr(argMinProb)) >= 3

\* C10: for every path the constructor accepts, the path write derives is
\* the stored path: write writes the file read opens.
C10_WriteTarget ==
    /\ Constructed => WritePath(filepath_) = filepath_
    /\ DOMAIN disk \subseteq {filepath_}
    /\ call = "write" => FileExists
    /\ ReadAfterWrite => outcome # "IOError"

\* a file written under a path other than a.stp was read back
C10_Witness ==
    /\ ReadAfterWrite
    /\ filepath_ # HomePath
    /\ outcome = "ok"
    /\ result # <<>>

====
